---- MODULE Spec2Model ----
(***************************************************************************)
(* NSGA-II schedule optimizer (class NSGAIIOptimizer, src/unnamed/part_000) *)
(* as a state machine.                                                      *)
(*                                                                          *)
(* JavaScript numbers are modelled as exact rationals [n, d] (d > 0), with  *)
(* Infinity as 1/0.  Departure times are whole minutes.  An Individual is a *)
(* record; object identity is the index of the record in `population`, so   *)
(* fronts, dominatedSolutions and newPopulation hold indices (references).  *)
(***************************************************************************)
EXTENDS Integers, Sequences, FiniteSets, TLC

\* ---- bounds of the model (scaled-down configuration and input sizes) ----
\* populationSize (100 in the source), scaled down
PopulationSize == 2
\* generations (50 in the source), scaled down
Generations == 2
\* schedule length (24 in the source), scaled down
ScheduleLength == 2
\* longest demand list drawn as input
MaxDemand == 2
\* most routes drawn as input
MaxRoutes == 2
\* most individuals mutated in one call of applyGeneticOperators
MaxMutations == 1

\* ---- program constants ----
DayMinutes == 1440
TripCost == 50
HeadwayPenalty == 100
MinHeadway == 30
TripMinutes == 60
OperatingHours == 16
WaitTimeReduction == 18
UtilizationIncrease == 21
CostSavings == 15
\* Array(24): the number of departures of every schedule of a run
DefaultScheduleLength == 24

\* ---- rationals ----
RECURSIVE GCD(_, _)
GCD(a, b) == IF b = 0 THEN a ELSE GCD(b, a % b)

Abs(x) == IF x < 0 THEN -x ELSE x

\* the rational n/d in lowest terms, d > 0
Rat(n, d) ==
  LET g == GCD(Abs(n), Abs(d))
      s == IF d < 0 THEN -1 ELSE 1
  IN [n |-> (s * n) \div g, d |-> (s * d) \div g]

Num(k) == [n |-> k, d |-> 1]
Infinity == [n |-> 1, d |-> 0]
IsFinite(x) == x.d # 0

\* x < y and x > y on numbers (Infinity = Infinity, neither below the other)
Less(x, y) == x.n * y.d < y.n * x.d
Greater(x, y) == Less(y, x)

\* x + y; Infinity absorbs
Plus(x, y) ==
  IF ~IsFinite(x) \/ ~IsFinite(y) THEN Infinity
  ELSE Rat(x.n * y.d + y.n * x.d, x.d * y.d)

\* x - y on finite numbers
Minus(x, y) == Rat(x.n * y.d - y.n * x.d, x.d * y.d)

\* x / y on finite numbers, y > 0
Divide(x, y) == Rat(x.n * y.d, x.d * y.n)

Min2(x, y) == IF Less(y, x) THEN y ELSE x

\* a function over 1..n held as a sequence value (evaluated once, not lazily)
Array(f) == f \o <<>>

\* ---- Array.prototype.sort: stable; before[a][b] iff comparator(a, b) < 0 ----
StableSort(s, before) ==
  LET pos == Array([i \in 1..Len(s) |->
                 1 + Cardinality({j \in 1..Len(s) :
                       \/ before[s[j]][s[i]]
                       \/ (~before[s[i]][s[j]] /\ j < i)})])
  IN Array([k \in 1..Len(s) |-> s[CHOOSE i \in 1..Len(s) : pos[i] = k]])

Elements(s) == {s[i] : i \in 1..Len(s)}

\* schedule.sort((a, b) => a - b)
SortAscending(schedule) ==
  StableSort(schedule,
             [a \in Elements(schedule) |-> [b \in Elements(schedule) |-> a < b]])

IsAscending(schedule) ==
  \A i \in 1..Len(schedule) - 1 : schedule[i] <= schedule[i + 1]

\* ---- inputs ----
\* departure times Math.random() * 1440 can produce (0 included), whole minutes
TimeVals == {0, 10, 40}

\* time_window "HH:MM" as <<hours, minutes>>
DemandPoints ==
  { [time_window |-> <<0, 0>>, passenger_count |-> 1],
    [time_window |-> <<0, 5>>, passenger_count |-> 2],
    [time_window |-> <<0, 10>>, passenger_count |-> 0] }

DemandLists == UNION {[1..k -> DemandPoints] : k \in 0..MaxDemand}

RouteIds == <<"R1", "R2", "R3", "R4">>
RouteSets == {SubSeq(RouteIds, 1, k) : k \in 0..MaxRoutes}

ZeroObjectives ==
  [operatorCost |-> Num(0), passengerWaitTime |-> Num(0),
   vehicleUtilization |-> Num(0)]

\* a freshly constructed Individual (initializePopulation, crossover).
\* schedule is a reference to an array: scheduleRef names the array, schedule is
\* its content, and Individuals with the same scheduleRef hold the same array.
NewIndividual(schedule, ref) ==
  [schedule |-> schedule,
   scheduleRef |-> ref,
   objectives |-> ZeroObjectives,
   dominationCount |-> 0,
   dominatedSolutions |-> <<>>,
   rank |-> 0,
   crowdingDistance |-> Num(0)]

\* Array(24).fill(0).map(() => Math.random() * 1440).sort(...)
RandomSchedules ==
  {SortAscending(s) : s \in [1..ScheduleLength -> TimeVals]}

\* ---- Objective Evaluator ----
\* timeToMinutes
timeToMinutes(timeStr) == timeStr[1] * 60 + timeStr[2]

\* mutant: the penalty also at a headway of exactly the minimum
RECURSIVE HeadwayPenalties_AtOrBelow(_, _)
HeadwayPenalties_AtOrBelow(schedule, i) ==
  IF i > Len(schedule) THEN 0
  ELSE (IF i > 1 /\ schedule[i] - schedule[i - 1] <= MinHeadway
        THEN HeadwayPenalty ELSE 0)
       + HeadwayPenalties_AtOrBelow(schedule, i + 1)

\* schedule.reduce(...) of the headway penalties, from index i on
RECURSIVE HeadwayPenalties(_, _)
HeadwayPenalties(schedule, i) ==
  IF i > Len(schedule) THEN 0
  ELSE (IF i > 1 /\ schedule[i] - schedule[i - 1] < MinHeadway
        THEN HeadwayPenalty ELSE 0)
       + HeadwayPenalties(schedule, i + 1)

operatorCostOf(schedule) ==
  Len(schedule) * TripCost + HeadwayPenalties(schedule, 1)

\* schedule.find(busTime => busTime >= demandTime) || schedule[0] + 1440
\* (`||` takes the right operand when find returns undefined or 0)
nextBusOf(schedule, demandTime) ==
  LET hits == {i \in 1..Len(schedule) : schedule[i] >= demandTime}
      found == IF hits = {} THEN 0
               ELSE schedule[CHOOSE i \in hits : \A j \in hits : i <= j]
  IN IF hits # {} /\ found # 0 THEN found ELSE schedule[1] + DayMinutes

RECURSIVE TotalWaitTime(_, _, _)
TotalWaitTime(schedule, demandForecasts, k) ==
  IF k > Len(demandForecasts) THEN 0
  ELSE LET demand == demandForecasts[k]
           demandTime == timeToMinutes(demand.time_window)
           waitTime == nextBusOf(schedule, demandTime) - demandTime
       IN waitTime * demand.passenger_count
          + TotalWaitTime(schedule, demandForecasts, k + 1)

RECURSIVE TotalPassengers(_, _)
TotalPassengers(demandForecasts, k) ==
  IF k > Len(demandForecasts) THEN 0
  ELSE demandForecasts[k].passenger_count
       + TotalPassengers(demandForecasts, k + 1)

avgWaitTimeOf(schedule, demandForecasts) ==
  LET totalWaitTime == TotalWaitTime(schedule, demandForecasts, 1)
      totalPassengers == TotalPassengers(demandForecasts, 1)
  IN IF totalPassengers > 0 THEN Rat(totalWaitTime, totalPassengers)
     ELSE Num(0)

\* mutant: the utilization is not capped at 1
vehicleUtilizationOf_NoCap(schedule) ==
  LET totalServiceTime == Len(schedule) * TripMinutes
      totalAvailableTime == OperatingHours * 60
      utilization == Rat(totalServiceTime, totalAvailableTime)
  IN Minus(Num(1), utilization)

vehicleUtilizationOf(schedule) ==
  LET totalServiceTime == Len(schedule) * TripMinutes
      totalAvailableTime == OperatingHours * 60
      utilization == Min2(Rat(totalServiceTime, totalAvailableTime), Num(1))
  IN Minus(Num(1), utilization)

evaluateObjectives(individual, demandForecasts) ==
  [operatorCost |-> Num(operatorCostOf(individual.schedule)),
   passengerWaitTime |-> avgWaitTimeOf(individual.schedule, demandForecasts),
   vehicleUtilization |-> vehicleUtilizationOf(individual.schedule)]

\* ---- Dominance ----
ObjectiveNames == <<"operatorCost", "passengerWaitTime", "vehicleUtilization">>

\* mutant: "not worse in any" without "better in any"
dominates_NoBetterCheck(a, b) ==
  ~\E k \in 1..Len(ObjectiveNames) :
      Greater(a.objectives[ObjectiveNames[k]], b.objectives[ObjectiveNames[k]])

dominates(a, b) ==
  LET aBetterInAny == \E k \in 1..Len(ObjectiveNames) :
          Less(a.objectives[ObjectiveNames[k]], b.objectives[ObjectiveNames[k]])
      aWorseInAny == \E k \in 1..Len(ObjectiveNames) :
          Greater(a.objectives[ObjectiveNames[k]], b.objectives[ObjectiveNames[k]])
  IN aBetterInAny /\ ~aWorseInAny

\* ---- Dominance Ranker ----
\* the indices of the candidates that satisfy a test, in array order
\* (S is the set of those that satisfy the test)
Indices(S) ==
  Array([k \in 1..Cardinality(S) |->
           CHOOSE i \in S : Cardinality({j \in S : j < i}) = k - 1])

\* mutant: dominationCount counts the candidates p dominates
InitDomination_CountsDominated(population) ==
  LET n == Len(population)
      Count(p) == Cardinality({q \in 1..n : dominates(population[p], population[q])})
  IN Array([p \in 1..n |->
        [population[p] EXCEPT
           !.dominationCount = Count(p),
           !.dominatedSolutions =
               Indices({q \in 1..n : dominates(population[p], population[q])}),
           !.rank = IF Count(p) = 0 THEN 0 ELSE @]])

\* first pass of nonDominatedSort: the forEach over p, with its inner forEach over q
InitDomination(population) ==
  LET n == Len(population)
      Count(p) == Cardinality({q \in 1..n :
                     /\ ~dominates(population[p], population[q])
                     /\ dominates(population[q], population[p])})
  IN Array([p \in 1..n |->
        [population[p] EXCEPT
           !.dominationCount = Count(p),
           !.dominatedSolutions =
               Indices({q \in 1..n : dominates(population[p], population[q])}),
           !.rank = IF Count(p) = 0 THEN 0 ELSE @]])

\* the dominatedSolutions of the members of a front, in visiting order
RECURSIVE DominatedBy(_, _, _)
DominatedBy(population, front, k) ==
  IF k > Len(front) THEN <<>>
  ELSE population[front[k]].dominatedSolutions
       \o DominatedBy(population, front, k + 1)

\* mutant: q joins nextFront at every decrement
RECURSIVE Decrement_NoZeroCheck(_, _, _, _, _)
Decrement_NoZeroCheck(population, qs, k, nextFront, rank) ==
  IF k > Len(qs) THEN [population |-> population, nextFront |-> nextFront]
  ELSE LET q == qs[k]
           pop1 == [population EXCEPT ![q].dominationCount = @ - 1,
                                      ![q].rank = rank]
       IN Decrement_NoZeroCheck(pop1, qs, k + 1, Append(nextFront, q), rank)

\* q.dominationCount--; if it reaches 0, q.rank = rank and q joins nextFront
RECURSIVE Decrement(_, _, _, _, _)
Decrement(population, qs, k, nextFront, rank) ==
  IF k > Len(qs) THEN [population |-> population, nextFront |-> nextFront]
  ELSE LET q == qs[k]
           count == population[q].dominationCount - 1
           pop1 == [population EXCEPT ![q].dominationCount = count,
                                      ![q].rank = IF count = 0 THEN rank ELSE @]
       IN Decrement(pop1, qs, k + 1,
                    IF count = 0 THEN Append(nextFront, q) ELSE nextFront, rank)

\* mutant: the members of the next front are given rank i + 2
RECURSIVE PeelFronts_RankOffByOne(_, _, _)
PeelFronts_RankOffByOne(population, fronts, i) ==
  IF i > Len(fronts) \/ Len(fronts[i]) = 0
  THEN [population |-> population, fronts |-> fronts]
  ELSE LET r == Decrement(population, DominatedBy(population, fronts[i], 1),
                          1, <<>>, i + 1)
       IN PeelFronts_RankOffByOne(r.population,
                     IF Len(r.nextFront) > 0 THEN Append(fronts, r.nextFront)
                     ELSE fronts,
                     i + 1)

\* the while loop of nonDominatedSort; i is the 1-based index of the current front
RECURSIVE PeelFronts(_, _, _)
PeelFronts(population, fronts, i) ==
  IF i > Len(fronts) \/ Len(fronts[i]) = 0
  THEN [population |-> population, fronts |-> fronts]
  ELSE LET r == Decrement(population, DominatedBy(population, fronts[i], 1),
                          1, <<>>, i)
       IN PeelFronts(r.population,
                     IF Len(r.nextFront) > 0 THEN Append(fronts, r.nextFront)
                     ELSE fronts,
                     i + 1)

\* returns the population with its bookkeeping fields written and the fronts
nonDominatedSort(population) ==
  LET pop1 == InitDomination(population)
      front0 == Indices({p \in 1..Len(population) : pop1[p].dominationCount = 0})
      r == PeelFronts(pop1, <<front0>>, 1)
  IN [population |-> r.population,
      fronts |-> SelectSeq(r.fronts, LAMBDA front : Len(front) > 0)]

\* ---- Crowding Estimator ----
\* mutant: only the first boundary member is set to Infinity
CrowdByObjective_OneBoundary(population, front, obj) ==
  LET sorted == StableSort(front,
                    [a \in Elements(front) |-> [b \in Elements(front) |->
                       Less(population[a].objectives[obj], population[b].objectives[obj])]])
  IN [population |-> [population EXCEPT ![sorted[1]].crowdingDistance = Infinity],
      front |-> sorted]

\* one pass of objectives.forEach: sort the front by the objective, set the two
\* boundary members to Infinity, add the normalised gaps to the interior members
CrowdByObjective(population, front, obj) ==
  LET sorted == StableSort(front,
                    [a \in Elements(front) |-> [b \in Elements(front) |->
                       Less(population[a].objectives[obj], population[b].objectives[obj])]])
      last == Len(sorted)
      ObjAt(i) == population[sorted[i]].objectives[obj]
      range == Minus(ObjAt(last), ObjAt(1))
      pop1 == [population EXCEPT ![sorted[1]].crowdingDistance = Infinity]
      pop2 == [pop1 EXCEPT ![sorted[last]].crowdingDistance = Infinity]
      Pos(p) == CHOOSE i \in 1..last : sorted[i] = p
      pop3 == Array([p \in 1..Len(pop2) |->
                 IF /\ \E i \in 2..last - 1 : sorted[i] = p
                    /\ Greater(range, Num(0))
                 THEN [pop2[p] EXCEPT !.crowdingDistance =
                         Plus(@, Divide(Minus(ObjAt(Pos(p) + 1), ObjAt(Pos(p) - 1)),
                                        range))]
                 ELSE pop2[p]])
  IN [population |-> pop3, front |-> sorted]

RECURSIVE CrowdObjectives(_, _, _)
CrowdObjectives(population, front, k) ==
  IF k > Len(ObjectiveNames) THEN [population |-> population, front |-> front]
  ELSE LET r == CrowdByObjective(population, front, ObjectiveNames[k])
       IN CrowdObjectives(r.population, r.front, k + 1)

\* writes crowdingDistance into the members of the front; sorts the front in place
calculateCrowdingDistance(population, front) ==
  IF Len(front) <= 2
  THEN [population |->
          Array([p \in 1..Len(population) |->
             IF \E i \in 1..Len(front) : front[i] = p
             THEN [population[p] EXCEPT !.crowdingDistance = Infinity]
             ELSE population[p]]),
        front |-> front]
  ELSE LET zeroed == Array([p \in 1..Len(population) |->
                        IF \E i \in 1..Len(front) : front[i] = p
                        THEN [population[p] EXCEPT !.crowdingDistance = Num(0)]
                        ELSE population[p]])
       IN CrowdObjectives(zeroed, front, 1)

\* fronts.forEach(front => this.calculateCrowdingDistance(front))
RECURSIVE CrowdFronts(_, _, _)
CrowdFronts(population, fs, k) ==
  IF k > Len(fs) THEN [population |-> population, fronts |-> fs]
  ELSE LET r == calculateCrowdingDistance(population, fs[k])
       IN CrowdFronts(r.population, [fs EXCEPT ![k] = r.front], k + 1)

\* ---- Environmental Selector ----
\* the while loop: reading fronts[i].length past the last front throws a TypeError
RECURSIVE AddCompleteFronts(_, _, _)
AddCompleteFronts(fs, i, newPop) ==
  IF i > Len(fs) THEN [threw |-> TRUE, i |-> i, newPopulation |-> newPop]
  ELSE IF Len(newPop) + Len(fs[i]) <= PopulationSize
       THEN AddCompleteFronts(fs, i + 1, newPop \o fs[i])
       ELSE [threw |-> FALSE, i |-> i, newPopulation |-> newPop]

\* mutant: the front is sorted by ascending crowding distance
SortByCrowding_Ascending(population, front) ==
  StableSort(front,
      [a \in Elements(front) |-> [b \in Elements(front) |->
         Less(population[a].crowdingDistance, population[b].crowdingDistance)]])

\* fronts[i].sort((a, b) => b.crowdingDistance - a.crowdingDistance)
SortByCrowding(population, front) ==
  StableSort(front,
      [a \in Elements(front) |-> [b \in Elements(front) |->
         Greater(population[a].crowdingDistance, population[b].crowdingDistance)]])

selectNextGeneration(population, fs) ==
  LET w == AddCompleteFronts(fs, 1, <<>>)
  IN IF w.threw THEN [threw |-> TRUE, newPopulation |-> w.newPopulation, fronts |-> fs]
     ELSE IF Len(w.newPopulation) < PopulationSize /\ w.i <= Len(fs)
          THEN LET remaining == PopulationSize - Len(w.newPopulation)
                   sortedFront == SortByCrowding(population, fs[w.i])
                   taken == IF remaining < Len(sortedFront) THEN remaining
                            ELSE Len(sortedFront)
               IN [threw |-> FALSE,
                   newPopulation |-> w.newPopulation \o SubSeq(sortedFront, 1, taken),
                   fronts |-> [fs EXCEPT ![w.i] = sortedFront]]
          ELSE [threw |-> FALSE, newPopulation |-> w.newPopulation, fronts |-> fs]

\* ---- Variation Operators ----
\* crossoverPoint is 0-based: slice(0, point) and slice(point)
\* mutant: child2 is assembled like child1
crossover_SameChildren(parent1, parent2, crossoverPoint, fresh) ==
  LET child1Schedule == SortAscending(
          SubSeq(parent1.schedule, 1, crossoverPoint)
          \o SubSeq(parent2.schedule, crossoverPoint + 1, Len(parent2.schedule)))
  IN <<NewIndividual(child1Schedule, fresh + 1),
       NewIndividual(child1Schedule, fresh + 2)>>

\* mutant: child2 is a shallow copy of parent2 and holds parent2's array
crossover_SharedArray(parent1, parent2, crossoverPoint, fresh) ==
  LET child1Schedule == SortAscending(
          SubSeq(parent1.schedule, 1, crossoverPoint)
          \o SubSeq(parent2.schedule, crossoverPoint + 1, Len(parent2.schedule)))
  IN <<NewIndividual(child1Schedule, fresh + 1),
       NewIndividual(parent2.schedule, parent2.scheduleRef)>>

\* the two children are built on new arrays (slice, spread), named fresh + 1
\* and fresh + 2
crossover(parent1, parent2, crossoverPoint, fresh) ==
  LET child1Schedule == SortAscending(
          SubSeq(parent1.schedule, 1, crossoverPoint)
          \o SubSeq(parent2.schedule, crossoverPoint + 1, Len(parent2.schedule)))
      child2Schedule == SortAscending(
          SubSeq(parent2.schedule, 1, crossoverPoint)
          \o SubSeq(parent1.schedule, crossoverPoint + 1, Len(parent1.schedule)))
  IN <<NewIndividual(child1Schedule, fresh + 1),
       NewIndividual(child2Schedule, fresh + 2)>>

\* mutant: the schedule is not sorted again after the write
mutate_NoSort(individual, mutationIndex, value) ==
  [individual EXCEPT !.schedule = [@ EXCEPT ![mutationIndex] = value]]

\* mutationIndex is 1-based here; only the schedule is written
mutate(individual, mutationIndex, value) ==
  [individual EXCEPT !.schedule =
      SortAscending([individual.schedule EXCEPT ![mutationIndex] = value])]

\* the greatest array name in use among the survivors
MaxRef(survivors) ==
  CHOOSE r \in {survivors[i].scheduleRef : i \in 1..Len(survivors)} :
     \A i \in 1..Len(survivors) : survivors[i].scheduleRef <= r

\* mutant: only the first child of a crossover is pushed
RECURSIVE Offspring_OneChild(_, _, _)
Offspring_OneChild(survivors, cx, k) ==
  IF k > Len(cx) THEN <<>>
  ELSE (IF cx[k] = -1 THEN <<>>
        ELSE <<crossover(survivors[2 * k - 1], survivors[2 * k], cx[k],
                         MaxRef(survivors) + 2 * (k - 1))[1]>>)
       \o Offspring_OneChild(survivors, cx, k + 1)

\* the crossover loop over the pairs (0,1), (2,3), ...; cx[k] is -1 when
\* Math.random() >= crossoverRate for pair k, else the crossover point drawn
RECURSIVE Offspring(_, _, _)
Offspring(survivors, cx, k) ==
  IF k > Len(cx) THEN <<>>
  ELSE (IF cx[k] = -1 THEN <<>>
        ELSE crossover(survivors[2 * k - 1], survivors[2 * k], cx[k],
                       MaxRef(survivors) + 2 * (k - 1)))
       \o Offspring(survivors, cx, k + 1)

\* mutant: the children take the place of their parents
CrossoverPhase_ReplaceParents(survivors, cx) ==
  LET children == Offspring(survivors, cx, 1)
  IN children \o SubSeq(survivors, Len(children) + 1, Len(survivors))

\* const newPopulation = [...population] and the crossover loop
CrossoverPhase(survivors, cx) == survivors \o Offspring(survivors, cx, 1)

\* the write of mutate reaches every Individual that holds the array
WriteSchedule(newPopulation, ref, schedule) ==
  Array([q \in 1..Len(newPopulation) |->
     IF newPopulation[q].scheduleRef = ref
     THEN [newPopulation[q] EXCEPT !.schedule = schedule]
     ELSE newPopulation[q]])

\* newPopulation.forEach(individual => ... this.mutate(individual)); mu maps the
\* (1-based) positions that mutate to <<mutationIndex, value>>
RECURSIVE MutationPhase(_, _, _)
MutationPhase(newPopulation, mu, p) ==
  IF p > Len(newPopulation) THEN newPopulation
  ELSE IF p \in DOMAIN mu
       THEN MutationPhase(
              WriteSchedule(newPopulation, newPopulation[p].scheduleRef,
                            mutate(newPopulation[p], mu[p][1], mu[p][2]).schedule),
              mu, p + 1)
       ELSE MutationPhase(newPopulation, mu, p + 1)

applyGeneticOperators(survivors, cx, mu) ==
  MutationPhase(CrossoverPhase(survivors, cx), mu, 1)

\* the arrays renamed by the first position that holds them (an address carries
\* no other information than which Individuals share it)
NameArrays(population) ==
  Array([p \in 1..Len(population) |->
     [population[p] EXCEPT !.scheduleRef =
        CHOOSE q \in 1..p :
           /\ population[q].scheduleRef = population[p].scheduleRef
           /\ \A o \in 1..q - 1 :
                 population[o].scheduleRef # population[p].scheduleRef]])

\* the draws of Math.random() in one call of applyGeneticOperators
CrossoverDraws(n) == [1..(n \div 2) -> -1..(ScheduleLength - 1)]

MutationDraws(n) ==
  UNION {[S -> (1..ScheduleLength) \X TimeVals] :
           S \in {T \in SUBSET (1..n) : Cardinality(T) <= MaxMutations}}

\* ---- Result Projector ----
\* "HH:MM" as <<hours, minutes>>
minutesToTime(minutes) == <<minutes \div 60, minutes % 60>>

\* mutant: every route is given the first candidate of the front
convertToOptimizedSchedules_FirstOnly(population, paretoFront, routeIds) ==
  Array([index \in 1..Len(routeIds) |->
     LET individual == population[paretoFront[1]]
     IN [route_id |-> routeIds[index],
         optimized_times |->
            Array([t \in 1..Len(individual.schedule) |->
                     minutesToTime(individual.schedule[t])]),
         performance_metrics |->
            [wait_time_reduction |-> WaitTimeReduction,
             utilization_increase |-> UtilizationIncrease,
             cost_savings |-> CostSavings]]])

convertToOptimizedSchedules(population, paretoFront, routeIds) ==
  Array([index \in 1..Len(routeIds) |->
     LET individual == population[paretoFront[((index - 1) % Len(paretoFront)) + 1]]
     IN [route_id |-> routeIds[index],
         optimized_times |->
            Array([t \in 1..Len(individual.schedule) |->
                     minutesToTime(individual.schedule[t])]),
         performance_metrics |->
            [wait_time_reduction |-> WaitTimeReduction,
             utilization_increase |-> UtilizationIncrease,
             cost_savings |-> CostSavings]]])

\* ---- state ----
VARIABLES
  pc,               \* position in optimizeSchedules
  gen,              \* the loop counter
  population,       \* the Individuals, by identity (index)
  fronts,           \* fronts / finalFronts: sequences of indices into population
  newPopulation,    \* the survivors returned by selectNextGeneration (indices)
  demandForecasts,  \* input
  routes,           \* gtfsData.routes (route ids), input
  result            \* the returned OptimizedSchedule[]

vars == <<pc, gen, population, fronts, newPopulation, demandForecasts, routes, result>>

\* the for loop's test
LoopHead(g) == IF g < Generations THEN "Evaluating" ELSE "FinalRanking"

\* the call of optimizeSchedules with its arguments
Init ==
  /\ pc = "Initializing"
  /\ gen = 0
  /\ population = <<>>
  /\ fronts = <<>>
  /\ newPopulation = <<>>
  /\ demandForecasts \in DemandLists
  /\ routes \in RouteSets
  /\ result = <<>>

\* initializePopulation
Initialize ==
  /\ pc = "Initializing"
  /\ \E schedules \in [1..PopulationSize -> RandomSchedules] :
        population' = [i \in 1..PopulationSize |-> NewIndividual(schedules[i], i)]
  /\ pc' = LoopHead(0)
  /\ UNCHANGED <<gen, fronts, newPopulation, demandForecasts, routes, result>>

\* population.map(individual => ({...individual, objectives: evaluateObjectives(...)}))
Evaluate ==
  /\ pc = "Evaluating"
  /\ population' = Array([i \in 1..Len(population) |->
        [population[i] EXCEPT
           !.objectives = evaluateObjectives(population[i], demandForecasts)]])
  /\ pc' = "Ranking"
  /\ UNCHANGED <<gen, fronts, newPopulation, demandForecasts, routes, result>>

\* const fronts = this.nonDominatedSort(population)
Rank ==
  /\ pc = "Ranking"
  /\ LET r == nonDominatedSort(population)
     IN /\ population' = r.population
        /\ fronts' = r.fronts
  /\ pc' = "Crowding"
  /\ UNCHANGED <<gen, newPopulation, demandForecasts, routes, result>>

\* fronts.forEach(front => this.calculateCrowdingDistance(front))
Crowd ==
  /\ pc = "Crowding"
  /\ LET r == CrowdFronts(population, fronts, 1)
     IN /\ population' = r.population
        /\ fronts' = r.fronts
  /\ pc' = "SelectingSurvivors"
  /\ UNCHANGED <<gen, newPopulation, demandForecasts, routes, result>>

\* const newPopulation = this.selectNextGeneration(fronts); a throw rejects the
\* promise returned by optimizeSchedules
Select ==
  /\ pc = "SelectingSurvivors"
  /\ LET r == selectNextGeneration(population, fronts)
     IN /\ pc' = IF r.threw THEN "TypeError" ELSE "Varying"
        /\ newPopulation' = r.newPopulation
        /\ fronts' = r.fronts
  /\ UNCHANGED <<gen, population, demandForecasts, routes, result>>

\* the Individuals that selectNextGeneration returned
Survivors ==
  Array([i \in 1..Len(newPopulation) |-> population[newPopulation[i]]])

\* this.applyGeneticOperators(newPopulation), up to the end of its crossover
\* loop; population now holds the newPopulation of applyGeneticOperators
CrossoverLoop ==
  /\ pc = "Varying"
  /\ \E cx \in CrossoverDraws(Len(Survivors)) :
        population' = NameArrays(CrossoverPhase(Survivors, cx))
  /\ pc' = "Mutating"
  /\ fronts' = <<>>
  /\ newPopulation' = <<>>
  /\ UNCHANGED <<gen, demandForecasts, routes, result>>

\* the mutation loop of applyGeneticOperators, its return and the assignment
\* population = ...; gen++
MutationLoop ==
  /\ pc = "Mutating"
  /\ \E mu \in MutationDraws(Len(population)) :
        population' = MutationPhase(population, mu, 1)
  /\ gen' = gen + 1
  /\ pc' = LoopHead(gen + 1)
  /\ UNCHANGED <<fronts, newPopulation, demandForecasts, routes, result>>

\* const finalFronts = this.nonDominatedSort(population);
\* return this.convertToOptimizedSchedules(finalFronts[0], gtfsData)
Terminate ==
  /\ pc = "FinalRanking"
  /\ LET r == nonDominatedSort(population)
     IN /\ population' = r.population
        /\ fronts' = r.fronts
        /\ result' = convertToOptimizedSchedules(r.population, r.fronts[1], routes)
  /\ pc' = "Terminated"
  /\ UNCHANGED <<gen, newPopulation, demandForecasts, routes>>

\* The run of optimizeSchedules from its call.  selectNextGeneration throws in
\* generation 0 for every initial population (NeverPastSelection, checked under
\* SpecAll), so no step after Select is taken in a run.
Next == Initialize \/ Evaluate \/ Rank \/ Crowd \/ Select

Spec == Init /\ [][Next]_vars

\* every step of optimizeSchedules
NextCycle ==
  Evaluate \/ Rank \/ Crowd \/ Select \/ CrossoverLoop \/ MutationLoop \/ Terminate

SpecAll == Init /\ [][Initialize \/ NextCycle]_vars

NeverPastSelection == pc \notin {"Varying", "Mutating", "FinalRanking", "Terminated"}

\* The loop body applied to a working population as applyGeneticOperators hands
\* it to the next cycle: N survivors plus two offspring per crossover.
WorkingSizes == {PopulationSize + 2 * k : k \in 0..(PopulationSize \div 2)}

CycleDemand ==
  << [time_window |-> <<0, 5>>, passenger_count |-> 2],
     [time_window |-> <<0, 20>>, passenger_count |-> 1] >>

InitCycle ==
  /\ pc = LoopHead(0)
  /\ gen = 0
  /\ \E n \in WorkingSizes : \E schedules \in [1..n -> RandomSchedules] :
        population = [i \in 1..n |-> NewIndividual(schedules[i], i)]
  /\ fronts = <<>>
  /\ newPopulation = <<>>
  /\ demandForecasts = CycleDemand
  /\ routes = SubSeq(RouteIds, 1, MaxRoutes)
  /\ result = <<>>

SpecCycle == InitCycle /\ [][NextCycle]_vars

\* The Ranker, the Crowding Estimator and the Selector applied to populations
\* with arbitrary objective vectors.
CostVals == {Num(0), Num(1), Num(2)}
WaitVals == {Num(0), Rat(1, 2), Num(1)}
UtilVals == {Num(0), Num(1)}

ObjectiveVectors ==
  [operatorCost : CostVals, passengerWaitTime : WaitVals, vehicleUtilization : UtilVals]

RankSizes == 1..(PopulationSize + 1)

AnySchedule == [i \in 1..ScheduleLength |-> 0]

InitRank ==
  /\ pc = "Ranking"
  /\ gen = 0
  /\ \E n \in RankSizes : \E objs \in [1..n -> ObjectiveVectors] :
        population = [i \in 1..n |->
                        [NewIndividual(AnySchedule, i) EXCEPT !.objectives = objs[i]]]
  /\ fronts = <<>>
  /\ newPopulation = <<>>
  /\ demandForecasts = <<>>
  /\ routes = <<>>
  /\ result = <<>>

NextRank == Rank \/ Crowd \/ Select

SpecRank == InitRank /\ [][NextRank]_vars

\* The final ranking and the Result Projector applied to evaluated populations
\* with arbitrary schedules, for route sets shorter and longer than the front.
\* The objective vectors trade cost against waiting time, or are dominated.
ProjectObjectives ==
  {o \in [operatorCost : {Num(0), Num(1)}, passengerWaitTime : {Num(0), Num(1)},
          vehicleUtilization : {Num(0)}] :
     Greater(Plus(o.operatorCost, o.passengerWaitTime), Num(0))}

ProjectRoutes == {SubSeq(RouteIds, 1, k) : k \in 0..(MaxRoutes + 1)}

InitProject ==
  /\ pc = "FinalRanking"
  /\ gen = Generations
  /\ \E n \in 1..PopulationSize :
        \E schedules \in [1..n -> RandomSchedules] :
          \E objs \in [1..n -> ProjectObjectives] :
             population = [i \in 1..n |->
                             [NewIndividual(schedules[i], i) EXCEPT !.objectives = objs[i]]]
  /\ fronts = <<>>
  /\ newPopulation = <<>>
  /\ demandForecasts = <<>>
  /\ routes \in ProjectRoutes
  /\ result = <<>>

SpecProject == InitProject /\ [][Terminate]_vars

\* The Evaluator and the Ranker applied to populations whose schedules all have
\* one length, from 1 departure up to the 24 of initializePopulation.
\* a departures at minute x, then minute y up to the end
UtilSchedules(len) ==
  {SortAscending([i \in 1..len |-> IF i <= a THEN x ELSE y]) :
     a \in {0, 1}, x \in TimeVals, y \in TimeVals}

InitUtil ==
  /\ pc = "Evaluating"
  /\ gen = 0
  /\ \E len \in 1..DefaultScheduleLength :
        \E schedules \in [1..PopulationSize -> UtilSchedules(len)] :
           population = [i \in 1..PopulationSize |-> NewIndividual(schedules[i], i)]
  /\ fronts = <<>>
  /\ newPopulation = <<>>
  /\ demandForecasts = CycleDemand
  /\ routes = <<>>
  /\ result = <<>>

NextUtil == Evaluate \/ Rank

SpecUtil == InitUtil /\ [][NextUtil]_vars

\* ======================= claims =======================
RECURSIVE FrontsTotalFrom(_)
FrontsTotalFrom(k) ==
  IF k > Len(fronts) THEN 0 ELSE Len(fronts[k]) + FrontsTotalFrom(k + 1)

FrontsTotal == FrontsTotalFrom(1)

FrontSet(k) == {fronts[k][i] : i \in 1..Len(fronts[k])}

Dom(a, b) == dominates(population[a], population[b])

\* C1: whenever the fronts handed to selectNextGeneration hold at least N
\* candidates in total (exactly N included), it returns exactly N survivors and
\* raises no error.
C1_SelectReturnsN ==
  (pc \in {"Varying", "TypeError"} /\ FrontsTotal >= PopulationSize)
    => (pc = "Varying" /\ Len(newPopulation) = PopulationSize)

\* C2: a run performs its G cycles and reaches Terminated; no cycle aborts
\* with an error.
C2_NoCycleAborts == pc # "TypeError"

\* C3 as stated: in every generation after the first the population entering
\* Evaluating has exactly N candidates.
C3_EnteringSizeIsN ==
  (pc = "Evaluating" /\ gen >= 1) => Len(population) = PopulationSize

\* C3 amended: in every generation after the first the population entering
\* Evaluating has N + 2k candidates for some 0 <= k <= floor(N/2): the N
\* survivors plus two offspring per crossover performed.
C3_EnteringSizeIsSurvivorsPlusOffspring ==
  (pc = "Evaluating" /\ gen >= 1)
    => \E k \in 0..(PopulationSize \div 2) :
          Len(population) = PopulationSize + 2 * k

C3_Witness ==
  pc = "Evaluating" /\ gen >= 1 /\ Len(population) = PopulationSize + 2

FullyEvaluated ==
  \A i \in 1..Len(population) :
     population[i].objectives = evaluateObjectives(population[i], demandForecasts)

\* C4: every invocation of the Ranker, the final one included, operates on a
\* population in which each candidate's objectives are the Evaluator's result
\* for its current schedule.
C4_RankerSeesEvaluated ==
  pc \in {"Ranking", "FinalRanking"} => FullyEvaluated

\* C5: every candidate held in the population has a schedule of the
\* configured length whose departure times are in ascending order.
C5_SchedulesSortedOfLengthL ==
  \A i \in 1..Len(population) :
     /\ Len(population[i].schedule) = ScheduleLength
     /\ IsAscending(population[i].schedule)

\* offspring are present and a survivor's schedule was mutated after evaluation
C5_Witness ==
  /\ pc = "Evaluating" /\ gen >= 1
  /\ Len(population) > PopulationSize
  /\ \E i \in 1..PopulationSize :
        population[i].objectives # evaluateObjectives(population[i], demandForecasts)

\* C6: dominates is irreflexive (no candidate dominates itself or a candidate
\* with an identical objective vector) and asymmetric.
C6_DominanceIrreflexiveAsymmetric ==
  pc = "Crowding" =>
    \A i, j \in 1..Len(population) :
       /\ population[i].objectives = population[j].objectives => ~Dom(i, j)
       /\ ~(Dom(i, j) /\ Dom(j, i))

\* the Ranker has compared a dominating pair and a pair of identical vectors
C6_Witness ==
  /\ pc = "Crowding"
  /\ \E i, j \in 1..Len(population) : Dom(i, j) /\ population[j].rank > population[i].rank
  /\ \E i, j \in 1..Len(population) :
        i # j /\ population[i].objectives = population[j].objectives

\* C7: front 0 is exactly the set of candidates dominated by no candidate of
\* the population; every member of front k+1 is dominated by some member of
\* front k and by no member of front k+1 or any later front.
C7_FrontsOrderedByDominance ==
  pc = "Crowding" =>
    /\ Len(fronts) >= 1
    /\ FrontSet(1) = {p \in 1..Len(population) :
                        \A q \in 1..Len(population) : ~Dom(q, p)}
    /\ \A k \in 1..Len(fronts) - 1 : \A m \in FrontSet(k + 1) :
          /\ \E d \in FrontSet(k) : Dom(d, m)
          /\ \A j \in (k + 1)..Len(fronts) : \A x \in FrontSet(j) : ~Dom(x, m)

C7_Witness ==
  pc = "Crowding" /\ Len(fronts) >= 2 /\ \E k \in 1..Len(fronts) : Len(fronts[k]) >= 2

\* C8: after calculateCrowdingDistance, a front of at most 2 members has only
\* infinite distances; in a front of more than 2 members, for each objective a
\* member at the low end and another at the high end of that objective have
\* infinite distance, and no distance is negative.
C8_CrowdingBoundaries ==
  pc = "SelectingSurvivors" =>
    \A k \in 1..Len(fronts) :
       /\ Len(fronts[k]) <= 2 =>
            \A m \in FrontSet(k) : population[m].crowdingDistance = Infinity
       /\ Len(fronts[k]) > 2 =>
            /\ \A m \in FrontSet(k) : ~Less(population[m].crowdingDistance, Num(0))
            /\ \A o \in 1..Len(ObjectiveNames) :
                 \E lo, hi \in FrontSet(k) :
                    /\ lo # hi
                    /\ population[lo].crowdingDistance = Infinity
                    /\ population[hi].crowdingDistance = Infinity
                    /\ \A m \in FrontSet(k) :
                         /\ ~Less(population[m].objectives[ObjectiveNames[o]],
                                  population[lo].objectives[ObjectiveNames[o]])
                         /\ ~Greater(population[m].objectives[ObjectiveNames[o]],
                                     population[hi].objectives[ObjectiveNames[o]])

\* a front of more than 2 members with an interior member of finite distance
C8_Witness ==
  /\ pc = "SelectingSurvivors"
  /\ \E k \in 1..Len(fronts) :
        /\ Len(fronts[k]) > 2
        /\ \E m \in FrontSet(k) :
              /\ IsFinite(population[m].crowdingDistance)
              /\ Greater(population[m].crowdingDistance, Num(0))

\* the wait of one demand point as the claim states it
WaitAt(schedule, t) ==
  LET later == {schedule[i] : i \in {j \in 1..Len(schedule) : schedule[j] >= t}}
  IN IF later # {} THEN (CHOOSE d \in later : \A e \in later : d <= e) - t
     ELSE schedule[1] + DayMinutes - t

RECURSIVE WeightedWait(_, _, _)
WeightedWait(schedule, demand, k) ==
  IF k > Len(demand) THEN 0
  ELSE WaitAt(schedule, timeToMinutes(demand[k].time_window)) * demand[k].passenger_count
       + WeightedWait(schedule, demand, k + 1)

\* C9: passengerWaitTime is the passenger-weighted average over the demand
\* points of (d - t), d the earliest departure at or after t (wait 0 for a
\* departure exactly at t, minute 0 included), or the first departure plus
\* 1440 when there is none; 0 for no demand or a total count of 0.
C9_WaitTimeIsWeightedAverage ==
  pc = "Ranking" =>
    \A i \in 1..Len(population) :
       population[i].objectives.passengerWaitTime =
         (IF TotalPassengers(demandForecasts, 1) > 0
          THEN Rat(WeightedWait(population[i].schedule, demandForecasts, 1),
                   TotalPassengers(demandForecasts, 1))
          ELSE Num(0))

ShortHeadways(schedule) ==
  {i \in 1..Len(schedule) - 1 : schedule[i + 1] - schedule[i] < MinHeadway}

\* C10: operatorCost is 50 per departure plus 100 for each adjacent pair of
\* departures less than 30 minutes apart (not for a pair exactly 30 apart).
C10_OperatorCost ==
  pc = "Ranking" =>
    \A i \in 1..Len(population) :
       population[i].objectives.operatorCost =
         Num(TripCost * Len(population[i].schedule)
             + HeadwayPenalty * Cardinality(ShortHeadways(population[i].schedule)))

\* one evaluated candidate with a pair 10 apart, one with a pair exactly 30 apart
C10_Witness ==
  /\ pc = "Ranking"
  /\ \E i, j \in 1..Len(population) :
        /\ \E a \in 1..Len(population[i].schedule) - 1 :
              population[i].schedule[a + 1] - population[i].schedule[a] = 10
        /\ Greater(population[i].objectives.operatorCost, Num(TripCost * ScheduleLength))
        /\ \E a \in 1..Len(population[j].schedule) - 1 :
              population[j].schedule[a + 1] - population[j].schedule[a] = MinHeadway
        /\ ShortHeadways(population[j].schedule) = {}
        /\ population[j].objectives.operatorCost = Num(TripCost * ScheduleLength)

\* the front-0 candidate the projector assigns to the route at 0-based index i
AssignedCandidate(i) == population[fronts[1][(i % Len(fronts[1])) + 1]]

\* C13: the Result Projector returns exactly one schedule per route, in route
\* order and carrying the route's identifier (an empty list for no routes); the
\* schedule of the route at index i is built from the front-0 candidate at
\* index i mod frontSize, with one time-of-day label per departure, in the
\* candidate's order.
C13_OneSchedulePerRoute ==
  pc = "Terminated" =>
    /\ Len(result) = Len(routes)
    /\ \A i \in 0..Len(routes) - 1 :
          /\ result[i + 1].route_id = routes[i + 1]
          /\ Len(result[i + 1].optimized_times) = Len(AssignedCandidate(i).schedule)
          /\ \A t \in 1..Len(AssignedCandidate(i).schedule) :
                LET label == result[i + 1].optimized_times[t]
                IN /\ label[2] \in 0..59
                   /\ label[1] * 60 + label[2] = AssignedCandidate(i).schedule[t]

\* more routes than front members, and two front members with different schedules
C13_Witness ==
  /\ pc = "Terminated"
  /\ Len(fronts[1]) = 2
  /\ Len(routes) > Len(fronts[1])
  /\ population[fronts[1][1]].schedule # population[fronts[1][2]].schedule
  /\ result[3].optimized_times = result[1].optimized_times
  /\ result[2].optimized_times # result[1].optimized_times

\* the empty route set gives the empty list
C13_WitnessNoRoutes == pc = "Terminated" /\ routes = <<>> /\ result = <<>>

\* C14: the metrics summary of a schedule is computed from the assigned
\* candidate's objectives: schedules built from candidates with different
\* objective vectors do not all carry one fixed metrics triple.
C14_MetricsComputedFromObjectives ==
  pc = "Terminated" =>
    \A i, j \in 0..Len(routes) - 1 :
       AssignedCandidate(i).objectives # AssignedCandidate(j).objectives
         => result[i + 1].performance_metrics # result[j + 1].performance_metrics

Dominators(p) == {q \in 1..Len(population) : Dom(q, p)}

\* C15: the fronts returned by nonDominatedSort partition the population:
\* every candidate is in exactly one front, no front is empty, the front sizes
\* sum to the population size, and each candidate's rank is the index of its
\* front (0 exactly for the non-dominated candidates).
C15_FrontsPartitionPopulation ==
  pc = "Crowding" =>
    /\ \A p \in 1..Len(population) :
          Cardinality({k \in 1..Len(fronts) : p \in FrontSet(k)}) = 1
    /\ \A k \in 1..Len(fronts) :
          /\ Len(fronts[k]) > 0
          /\ Cardinality(FrontSet(k)) = Len(fronts[k])
          /\ \A m \in FrontSet(k) : population[m].rank = k - 1
    /\ FrontsTotal = Len(population)
    /\ \A p \in 1..Len(population) :
          population[p].rank = 0 <=> Dominators(p) = {}

\* three fronts: a candidate of rank 2 below one of rank 1 below one of rank 0
C15_Witness ==
  /\ pc = "Crowding"
  /\ Len(fronts) = 3
  /\ \E p \in 1..Len(population) : population[p].rank = 2

Selected == Elements(newPopulation)

\* the fronts of which some but not all members were selected
PartialFronts ==
  {k \in 1..Len(fronts) :
     FrontSet(k) \cap Selected # {} /\ ~(FrontSet(k) \subseteq Selected)}

\* C16: in the survivor set returned by selectNextGeneration no unselected
\* candidate has a lower rank than a selected one, at most one front is
\* included partially, and within it no unselected member has a strictly
\* greater crowding distance than a selected member.
C16_SurvivorsInRankThenCrowdingOrder ==
  pc = "Varying" =>
    /\ \A s \in Selected : \A u \in (1..Len(population)) \ Selected :
          population[u].rank >= population[s].rank
    /\ Cardinality(PartialFronts) <= 1
    /\ \A k \in PartialFronts :
          \A s \in FrontSet(k) \cap Selected : \A u \in FrontSet(k) \ Selected :
             ~Greater(population[u].crowdingDistance, population[s].crowdingDistance)

\* a front of three is cut: the member left out has a finite distance, smaller
\* than that of the members taken
C16_Witness ==
  /\ pc = "Varying"
  /\ \E k \in PartialFronts :
        \E s \in FrontSet(k) \cap Selected : \E u \in FrontSet(k) \ Selected :
           Less(population[u].crowdingDistance, population[s].crowdingDistance)

\* C17 as stated: after the Ranker returns, each candidate's stored domination
\* count is the number of other candidates that dominate it.
C17_CountIsNumberOfDominators ==
  pc = "Crowding" =>
    \A p \in 1..Len(population) :
       population[p].dominationCount = Cardinality(Dominators(p))

\* C17 amended: after the Ranker returns, every candidate's stored domination
\* count is 0.  The peeling only decrements the counts, so a count that ends at
\* 0 was never negative.
C17_CountIsZeroAfterPeeling ==
  pc = "Crowding" =>
    \A p \in 1..Len(population) : population[p].dominationCount = 0

\* a candidate with two dominators, decremented twice during the peeling
C17_Witness ==
  /\ pc = "Crowding"
  /\ \E p \in 1..Len(population) :
        Cardinality(Dominators(p)) = 2 /\ population[p].dominationCount = 0

\* a candidate without the name of its array
Content(individual) == [individual EXCEPT !.scheduleRef = 0]

\* the number of departures of a schedule at minute v
Occurrences(schedule, v) == Cardinality({i \in 1..Len(schedule) : schedule[i] = v})

\* the offspring at positions n + 2b - 1 and n + 2b of the next population come
\* from the survivors at positions 2a - 1 and 2a
ChildrenOf(a, b) ==
  \E c \in 0..(ScheduleLength - 1) :
     LET n == Len(newPopulation)
         children == crossover(Survivors[2 * a - 1], Survivors[2 * a], c, 0)
     IN /\ Content(population'[n + 2 * b - 1]) = Content(children[1])
        /\ Content(population'[n + 2 * b]) = Content(children[2])

NoSharedArrays ==
  \A i, j \in 1..Len(population) :
     i # j => population[i].scheduleRef # population[j].scheduleRef

\* the candidates whose schedule the step changes
Changed == {p \in 1..Len(population) : population'[p].schedule # population[p].schedule}

\* new is old with one departure replaced
OneDepartureReplaced(old, new) ==
  \E a \in Elements(old) : \E v \in Elements(new) :
     \A x \in Elements(old) \cup Elements(new) :
        Occurrences(new, x) =
          Occurrences(old, x) - (IF x = a THEN 1 ELSE 0) + (IF x = v THEN 1 ELSE 0)

\* C19: no two candidates of the population hold the same schedule array, in
\* any generation; a mutation replaces one departure of the mutated candidate's
\* schedule and changes the schedule of no other candidate.
C19_MutationChangesOneCandidate ==
  [][/\ NoSharedArrays /\ NoSharedArrays'
     /\ pc = "Mutating" =>
          /\ Cardinality(Changed) <= MaxMutations
          /\ \A p \in Changed :
                OneDepartureReplaced(population[p].schedule, population'[p].schedule)
    ]_vars

\* a survivor was mutated after its evaluation, next to its unchanged partner
\* and their two offspring
C19_Witness ==
  /\ pc = "Evaluating" /\ gen >= 1
  /\ Len(population) = PopulationSize + 2
  /\ \E i \in 1..PopulationSize :
        /\ population[i].objectives # evaluateObjectives(population[i], demandForecasts)
        /\ \A j \in 1..PopulationSize :
              j # i => population[j].objectives
                         = evaluateObjectives(population[j], demandForecasts)

SameDepartures(parent1, parent2, child1, child2) ==
  \A v \in Elements(parent1.schedule) \cup Elements(parent2.schedule)
            \cup Elements(child1.schedule) \cup Elements(child2.schedule) :
     Occurrences(child1.schedule, v) + Occurrences(child2.schedule, v)
       = Occurrences(parent1.schedule, v) + Occurrences(parent2.schedule, v)

\* C20: crossover leaves both parents' schedules unchanged; the departures of
\* the two offspring, taken together as a multiset, are those of the two
\* parents; with cut index 0 the offspring are copies of parent 2 and parent 1.
C20_CrossoverPreservesDepartures ==
  [][pc = "Varying" =>
       LET n == Len(newPopulation)
           extra == Len(population') - n
       IN /\ \A i \in 1..n : population'[i].schedule = Survivors[i].schedule
          /\ \A b \in 1..(extra \div 2) : \E a \in 1..(n \div 2) :
                SameDepartures(Survivors[2 * a - 1], Survivors[2 * a],
                               population'[n + 2 * b - 1], population'[n + 2 * b])
          /\ \A a \in 1..(n \div 2) : \A c \in 0..(ScheduleLength - 1) :
                LET parent1 == Survivors[2 * a - 1]
                    parent2 == Survivors[2 * a]
                    children == crossover(parent1, parent2, c, MaxRef(Survivors))
                IN /\ SameDepartures(parent1, parent2, children[1], children[2])
                   /\ c = 0 =>
                         /\ children[1].schedule = parent2.schedule
                         /\ children[2].schedule = parent1.schedule
                         /\ {children[1].scheduleRef, children[2].scheduleRef}
                              \cap {parent1.scheduleRef, parent2.scheduleRef} = {}
    ]_vars

\* two offspring that mix the departures of their parents
C20_Witness ==
  /\ pc = "Mutating"
  /\ Len(population) = PopulationSize + 2
  /\ \A j \in PopulationSize + 1..Len(population) :
        \A i \in 1..PopulationSize : population[j].schedule # population[i].schedule

\* a is no worse than b in operatorCost and passengerWaitTime and better in one
DominatesOnCostAndWait(a, b) ==
  /\ ~Greater(a.objectives.operatorCost, b.objectives.operatorCost)
  /\ ~Greater(a.objectives.passengerWaitTime, b.objectives.passengerWaitTime)
  /\ \/ Less(a.objectives.operatorCost, b.objectives.operatorCost)
     \/ Less(a.objectives.passengerWaitTime, b.objectives.passengerWaitTime)

\* C21: vehicleUtilization lies in [0, 1] and depends only on the number of
\* departures (1 - L/16 below 16 departures, 0 from 16 on, the default 24
\* included), so it is the same for every candidate of a run, and dominance
\* between two candidates of a run is decided by operatorCost and
\* passengerWaitTime alone.
C21_UtilizationDependsOnLengthOnly ==
  pc \in {"Ranking", "Crowding"} =>
    \A i, j \in 1..Len(population) :
       LET u == population[i].objectives.vehicleUtilization
           L == Len(population[i].schedule)
       IN /\ ~Less(u, Num(0)) /\ ~Greater(u, Num(1))
          /\ u = population[j].objectives.vehicleUtilization
          /\ L >= 16 => u = Num(0)
          /\ L < 16 => u = Rat(16 - L, 16)
          /\ Dom(i, j) <=> DominatesOnCostAndWait(population[i], population[j])

\* schedules of the default 24 departures, ranked into two fronts
C21_Witness ==
  /\ pc = "Crowding"
  /\ Len(fronts) = 2
  /\ \A i \in 1..Len(population) :
        /\ Len(population[i].schedule) = DefaultScheduleLength
        /\ population[i].objectives.vehicleUtilization = Num(0)

\* schedules of fewer than 16 departures: the utilization objective is positive
C21_WitnessBelowCap ==
  /\ pc = "Crowding"
  /\ \E i \in 1..Len(population) :
        /\ Len(population[i].schedule) = 15
        /\ Greater(population[i].objectives.vehicleUtilization, Num(0))

====
